---- MODULE Spec2Model ----
(***************************************************************************)
(* Model of the single-image -> 3D pipeline (predict.py) and of the Flask  *)
(* service that runs it (server.py).                                       *)
(*                                                                         *)
(* Four specifications share the variables below:                          *)
(*   SpecLoad     load_midas as a function of the torch.hub environment    *)
(*   SpecBackproj depth_to_pointcloud over all H x W depth maps            *)
(*   Spec         one run of run_single_image, stage by stage              *)
(*   SpecServer   concurrent /generate and /generate-sync requests         *)
(* A specification leaves the variables of the others at their idle value. *)
(***************************************************************************)
EXTENDS Integers, Sequences, FiniteSets, TLC

VARIABLES
    hub,        \* torch.hub environment seen by load_midas: outcome of each load
    loadRes,    \* what the call load_midas(device) did
    bpIn,       \* depth_to_pointcloud: its argument (H, W, depth)
    bpOut,      \* depth_to_pointcloud: the point cloud it returned
    pc,         \* run_single_image: the statement the run has reached
    image,      \* image_bgr, as its shape [H, W]
    model,      \* the (model, transform) pair load_midas returned, and what it tried
    depth,      \* the depth map estimate_depth returned, flattened
    pcd,        \* the point cloud
    mesh,       \* the mesh: its vertex array and the length of its triangle array
    recon,      \* reconstruct_mesh: the repaired triangle count and the simplify calls
    uv,         \* the array compute_uv returned
    outdir,     \* the output directory and the files of it
    failure,    \* the exception that ended the run
    srv,        \* server: the state of each request handler
    fs          \* server: the temporary directories and their files

loadVars == <<hub, loadRes>>
bpVars == <<bpIn, bpOut>>
pipeVars == <<pc, image, model, depth, pcd, mesh, recon, uv, outdir, failure>>
srvVars == <<srv, fs>>
vars == <<hub, loadRes, bpIn, bpOut,
          pc, image, model, depth, pcd, mesh, recon, uv, outdir, failure, srv, fs>>

(***************************************************************************)
(* Bounds                                                                  *)
(***************************************************************************)
NErr == 2       \* distinct exceptions a hub load can raise
MaxW == 2       \* image width  of the depth maps of SpecBackproj
MaxH == 2       \* image height of the depth maps of SpecBackproj
MaxVerts == 3   \* vertices of a reconstructed mesh
TriSpread == 2  \* triangle counts run over 0..TriSpread and budget -/+ TriSpread
NReq == 2       \* requests the server handles, concurrently
NDirs == 2      \* names mkdtemp can give a temporary directory

None == "None"
\* outcome of one hub load: 0 when it succeeds, else the number of the exception
Errs == 1..NErr
Outcomes == {0} \cup Errs
Succeeds(o) == o = 0

(***************************************************************************)
(* load_midas                                                              *)
(***************************************************************************)
\* the reversed list, a slip in the priority order
ModelNamesReversed == <<"MiDaS_small", "DPT_Hybrid", "DPT_Large">>

\* the list the for loop iterates, in its order
ModelNames == <<"DPT_Large", "DPT_Hybrid", "MiDaS_small">>

Variants == {ModelNames[i] : i \in 1..Len(ModelNames)}

\* every way the hub loads of one call can turn out
HubEnvs == [transforms : Outcomes, variants : [Variants -> Outcomes]]

\* the transform paired with a variant
TransformFor(model_name) ==
    IF model_name = "MiDaS_small" THEN "small_transform" ELSE "dpt_transform"

\* the exception a failed hub load raises: which load, which error
HubError(what, e) == [what |-> what, err |-> e]

\* the for loop from its i-th iteration on; tried is the list of variants whose
\* load has been attempted so far, last_error the variable of that name
RECURSIVE TryVariants(_, _, _, _)
TryVariants(h, i, tried, last_error) ==
    IF i > Len(ModelNames)
    THEN [status |-> "raised", exc |-> "RuntimeError", carries |-> {last_error},
          model |-> None, transform |-> None, tried |-> tried]
    ELSE LET model_name == ModelNames[i] IN
         IF Succeeds(h.variants[model_name])
         THEN [status |-> "returned", exc |-> None, carries |-> {},
               model |-> model_name, transform |-> TransformFor(model_name),
               tried |-> Append(tried, model_name)]
         ELSE TryVariants(h, i + 1, Append(tried, model_name),
                          HubError(model_name, h.variants[model_name]))

\* load_midas(device): the transforms load is outside the try, so its failure
\* propagates as it is, before any variant is tried
load_midas(h) ==
    IF ~Succeeds(h.transforms)
    THEN [status |-> "raised", exc |-> "HubError",
          carries |-> {HubError("transforms", h.transforms)},
          model |-> None, transform |-> None, tried |-> <<>>]
    ELSE TryVariants(h, 1, <<>>, HubError(None, 0))

NotCalled ==
    [status |-> "none", exc |-> None, carries |-> {},
     model |-> None, transform |-> None, tried |-> <<>>]

(***************************************************************************)
(* State of one run of run_single_image before it starts                   *)
(***************************************************************************)
NoImage == [H |-> 0, W |-> 0]
NoModel == [name |-> None, transform |-> None, tried |-> <<>>]
NoMesh == [vertices |-> <<>>, triangles |-> 0]
NoRecon == [n_repaired |-> 0, simplify_calls |-> <<>>]
NoFailure == [stage |-> None, exc |-> None, names |-> None]
Absent == [present |-> FALSE, v |-> 0, vt |-> 0, f |-> 0]
NoStats == [present |-> FALSE, vertices |-> 0, faces |-> 0]
NoOutdir ==
    [exists |-> FALSE, texture |-> FALSE, obj |-> Absent, glb |-> Absent,
     stats |-> NoStats]

PipeFresh ==
    /\ image = NoImage
    /\ model = NoModel
    /\ depth = <<>>
    /\ pcd = <<>>
    /\ mesh = NoMesh
    /\ recon = NoRecon
    /\ uv = <<>>
    /\ outdir = NoOutdir
    /\ failure = NoFailure

PipeIdle == pc = "idle" /\ PipeFresh

(***************************************************************************)
(* State of the server before any request                                  *)
(*                                                                         *)
(* A file is kept as the request whose upload its content comes from, 0    *)
(* when the file does not exist.                                           *)
(***************************************************************************)
Reqs == 1..NReq
Dirs == 1..NDirs

\* the files of a run, in the order run_single_image writes them
OutOrder == <<"texture.png", "model.obj", "model.glb", "stats.json">>
OutFiles == {OutOrder[i] : i \in 1..Len(OutOrder)}

\* a temporary directory: the uploaded file and the directory out of it
EmptyDir ==
    [exists |-> FALSE, input |-> 0, out |-> FALSE, files |-> [n \in OutFiles |-> 0]]

NoResponse == [code |-> None, files |-> {}]
NewRequest ==
    [pc |-> "new", endpoint |-> None, tmpdir |-> 0, src |-> 0, exit |-> None,
     response |-> NoResponse]

SrvFresh == srv = [r \in Reqs |-> NewRequest] /\ fs = [d \in Dirs |-> EmptyDir]
SrvIdle == srv = <<>> /\ fs = <<>>

HubIdle == [transforms |-> 0, variants |-> [v \in Variants |-> 0]]
LoadIdle == hub = HubIdle /\ loadRes = NotCalled
BpIdle == bpIn = <<>> /\ bpOut = <<>>

InitLoad ==
    hub \in HubEnvs /\ loadRes = NotCalled /\ BpIdle /\ PipeIdle /\ SrvIdle

CallLoadMidas ==
    /\ loadRes.status = "none"
    /\ loadRes' = load_midas(hub)
    /\ UNCHANGED <<hub, bpVars, pipeVars, srvVars>>

NextLoad == CallLoadMidas

SpecLoad == InitLoad /\ [][NextLoad]_vars

(***************************************************************************)
(* depth_to_pointcloud                                                     *)
(*                                                                         *)
(* Depths and z are counted in units of 0.001/3, so that depth 1 is the    *)
(* depth whose z = depth * 3.0 equals the threshold 1e-3 exactly.          *)
(***************************************************************************)
DepthScale == 3     \* z = z * 3.0
ZThreshold == 3     \* 1e-3, in units of 0.001/3

\* depth values of the model: zero, exactly at the threshold, above it
DepthVals == {0, 1, 2}

\* an H x W array flattened row-major, as reshape(-1) lays it out: pixel (u, v)
\* (column u, row v, both from 0) is entry k = v * W + u + 1
PixelU(W, k) == (k - 1) % W
PixelV(W, k) == (k - 1) \div W

DepthMaps(H, W) == [1..(H * W) -> DepthVals]

\* the back-projected point of flattened pixel k. cx = W/2, cy = H/2 and
\* fx = fy > 0 (infer_intrinsics), so x and y are kept as the numerators
\* (2u - W) * z and (2v - H) * z of x = (u - cx) * z / fx, y = (v - cy) * z / fy
BackProject(H, W, dmap, k) ==
    LET z == dmap[k] * DepthScale IN
    [x |-> (2 * PixelU(W, k) - W) * z, y |-> (2 * PixelV(W, k) - H) * z, z |-> z]

\* the mask that admits the threshold itself, a slip of > into >=
MaskInclusive(z) == z >= ZThreshold

\* mask = z.reshape(-1) > 1e-3
Mask(z) == z > ZThreshold

\* pts[mask] over the first n flattened pixels: the masked points, in pixel order
RECURSIVE MaskedPoints(_, _, _, _)
MaskedPoints(H, W, dmap, n) ==
    IF n = 0 THEN <<>>
    ELSE LET rest == MaskedPoints(H, W, dmap, n - 1)
             pt == BackProject(H, W, dmap, n)
         IN IF Mask(pt.z) THEN Append(rest, pt) ELSE rest

depth_to_pointcloud(H, W, dmap) == MaskedPoints(H, W, dmap, H * W)

InitBackproj ==
    /\ \E h \in 1..MaxH, w \in 1..MaxW :
          \E d \in DepthMaps(h, w) : bpIn = <<[H |-> h, W |-> w, depth |-> d]>>
    /\ bpOut = <<>>
    /\ LoadIdle
    /\ PipeIdle
    /\ SrvIdle

\* bpOut holds the returned cloud as its single element once the call is made
CallDepthToPointcloud ==
    /\ bpOut = <<>>
    /\ bpOut' = <<depth_to_pointcloud(bpIn[1].H, bpIn[1].W, bpIn[1].depth)>>
    /\ UNCHANGED <<bpIn, loadVars, pipeVars, srvVars>>

NextBackproj == CallDepthToPointcloud

SpecBackproj == InitBackproj /\ [][NextBackproj]_vars

(***************************************************************************)
(* run_single_image, one action per statement of it                        *)
(*                                                                         *)
(* The vertex array of a mesh is a short sequence of vertex identities, so *)
(* that adding, removing or reordering vertices shows; the triangle array  *)
(* is its length. A run reads a one-row image of up to MaxW pixels.        *)
(***************************************************************************)
TriangleBudget == 150000

\* triangle counts a repaired mesh can have: few, and around the budget
TriCounts ==
    (0..TriSpread) \cup ((TriangleBudget - TriSpread)..(TriangleBudget + TriSpread))

Min(a, b) == IF a < b THEN a ELSE b

\* the run ends with the exception exc raised in stage
Raise(stage, exc) ==
    /\ pc' = "failed"
    /\ failure' = [stage |-> stage, exc |-> exc, names |-> None]

\* the run ends with exc raised in stage, its message naming the path what
RaiseNaming(stage, exc, what) ==
    /\ pc' = "failed"
    /\ failure' = [stage |-> stage, exc |-> exc, names |-> what]

\* what cv2.imread can return: None (kept as the shape of no image) for a file
\* it cannot read or decode, else an image of one row
ImreadResults == {NoImage} \cup {[H |-> 1, W |-> w] : w \in 1..MaxW}

\* the test left out: a None image is taken for an image
IsNoneUnchecked(img) == FALSE

\* if image_bgr is None
IsNone(img) == img = NoImage

\* image_bgr = cv2.imread(...); None when the file cannot be read or decoded
ReadImage ==
    /\ pc = "start"
    /\ \E img \in ImreadResults :
          /\ image' = img
          /\ IF IsNone(img)
             THEN RaiseNaming("imread", "FileNotFoundError", "input_path")
             ELSE pc' = "decoded" /\ UNCHANGED failure
    /\ UNCHANGED <<model, depth, pcd, mesh, recon, uv, outdir, loadVars, bpVars,
                   srvVars>>

\* model, transform = load_midas(device)
LoadMidas ==
    /\ pc = "decoded"
    /\ \E h \in HubEnvs :
          LET r == load_midas(h) IN
          IF r.status = "returned"
          THEN /\ model' = [name |-> r.model, transform |-> r.transform,
                            tried |-> r.tried]
               /\ pc' = "loaded"
               /\ UNCHANGED failure
          ELSE /\ Raise("load_midas", r.exc)
               /\ model' = [model EXCEPT !.tried = r.tried]
    /\ UNCHANGED <<image, depth, pcd, mesh, recon, uv, outdir, loadVars, bpVars, srvVars>>

\* depth = estimate_depth(model, transform, image_bgr, device): the network's
\* prediction, normalised to [0, 1] and filtered, or the exception inference raises
EstimateDepth ==
    /\ pc = "loaded"
    /\ \E infers \in BOOLEAN :
          IF infers
          THEN /\ depth' \in DepthMaps(image.H, image.W)
               /\ pc' = "depth"
               /\ UNCHANGED failure
          ELSE /\ Raise("estimate_depth", "RuntimeError")
               /\ UNCHANGED depth
    /\ UNCHANGED <<image, model, pcd, mesh, recon, uv, outdir, loadVars, bpVars, srvVars>>

\* K = infer_intrinsics(W, H); pcd = depth_to_pointcloud(depth, K)
BackProjectDepth ==
    /\ pc = "depth"
    /\ pcd' = depth_to_pointcloud(image.H, image.W, depth)
    /\ pc' = "points"
    /\ UNCHANGED <<image, model, depth, mesh, recon, uv, outdir, failure,
                   loadVars, bpVars, srvVars>>

\* pcd = clean_pointcloud(pcd): voxel down-sampling and outlier removal keep at
\* least one point of a non-empty cloud and add none; an empty cloud stays empty
CleanPointcloud ==
    /\ pc = "points"
    /\ \E m \in 0..Len(pcd) :
          /\ (pcd # <<>> => m > 0)
          /\ pcd' = SubSeq(pcd, 1, m)
    /\ pc' = "cleaned"
    /\ UNCHANGED <<image, model, depth, mesh, recon, uv, outdir, failure,
                   loadVars, bpVars, srvVars>>

\* the sequence s without its i-th element (s itself when i is no index of it)
RemoveAt(s, i) ==
    [j \in 1..(Len(s) - (IF i \in 1..Len(s) THEN 1 ELSE 0)) |->
        IF i \in 1..Len(s) /\ j >= i THEN s[j + 1] ELSE s[j]]

\* mesh.simplify_quadric_decimation(target): collapses edges while the mesh has
\* more than target triangles, which removes vertices (here at most the one at
\* index drop); a mesh with no more than target triangles comes back as it is
simplify_quadric_decimation(m, target, drop) ==
    IF m.triangles > target
    THEN [vertices |-> RemoveAt(m.vertices, drop), triangles |-> target]
    ELSE m

\* a fixed target, the budget itself, whatever the mesh has
DecimationTargetFixed(n) == TriangleBudget

\* target = min(len(mesh.triangles), 150_000)
DecimationTarget(n) == Min(n, TriangleBudget)

\* the end of reconstruct_mesh, from the repaired and smoothed mesh m on:
\* the mesh returned and the simplify calls made
Decimate(m, drop) ==
    LET target == DecimationTarget(m.triangles) IN
    IF target > 0
    THEN [mesh |-> simplify_quadric_decimation(m, target, drop),
          simplify_calls |-> <<target>>]
    ELSE [mesh |-> m, simplify_calls |-> <<>>]

\* mesh = reconstruct_mesh(pcd): Poisson reconstruction, crop and repair give a
\* mesh of k vertices and n triangles (none from an empty cloud, for which Open3D
\* may as well raise), which is then decimated
ReconstructMesh ==
    /\ pc = "cleaned"
    /\ \E raises \in BOOLEAN :
          IF raises
          THEN /\ Raise("reconstruct_mesh", "RuntimeError")
               /\ UNCHANGED <<mesh, recon>>
          ELSE /\ \E k \in 0..MaxVerts, n \in TriCounts, drop \in 0..MaxVerts :
                     /\ pcd = <<>> => k = 0
                     /\ k = 0 => n = 0
                     /\ drop <= k
                     /\ n <= TriangleBudget => drop = 0
                     /\ LET r == Decimate([vertices |-> [i \in 1..k |-> i],
                                           triangles |-> n], drop)
                        IN /\ mesh' = r.mesh
                           /\ recon' = [n_repaired |-> n,
                                        simplify_calls |-> r.simplify_calls]
               /\ pc' = "meshed"
               /\ UNCHANGED failure
    /\ UNCHANGED <<image, model, depth, pcd, uv, outdir, loadVars, bpVars, srvVars>>

\* the projection that skips the first vertex, a slip in the indexing
compute_uv_skip(m) ==
    [i \in 1..(Len(m.vertices) - (IF m.vertices = <<>> THEN 0 ELSE 1)) |->
        [vertex |-> m.vertices[i + 1]]]

\* compute_uv(mesh, K, W, H): one projected (u, v) per row of mesh.vertices, in
\* row order; an entry is kept as the vertex it is the projection of
compute_uv(m) == [i \in 1..Len(m.vertices) |-> [vertex |-> m.vertices[i]]]

ComputeUV ==
    /\ pc = "meshed"
    /\ uv' = compute_uv(mesh)
    /\ pc' = "uv"
    /\ UNCHANGED <<image, model, depth, pcd, mesh, recon, outdir, failure,
                   loadVars, bpVars, srvVars>>

\* out_dir.mkdir(parents=True, exist_ok=True); Image.fromarray(...).save(texture_path)
\* a save that fails leaves no texture.png (Pillow removes the file it created)
SaveTexture ==
    /\ pc = "uv"
    /\ \E outcome \in {"ok", "mkdir_raises", "save_raises"} :
          IF outcome = "ok"
          THEN /\ outdir' = [outdir EXCEPT !.exists = TRUE, !.texture = TRUE]
               /\ pc' = "textured"
               /\ UNCHANGED failure
          ELSE /\ Raise("save_texture", "OSError")
               /\ outdir' = IF outcome = "mkdir_raises" THEN outdir
                            ELSE [outdir EXCEPT !.exists = TRUE]
    /\ UNCHANGED <<image, model, depth, pcd, mesh, recon, uv, loadVars, bpVars,
                   srvVars>>

\* what trimesh writes for Trimesh(vertices, faces, process=False) with
\* visual.uv = uv: a v line per vertex, a vt line per uv row, an f line per face
EncodeMesh(m, uvs) ==
    [present |-> TRUE, v |-> Len(m.vertices), vt |-> Len(uvs), f |-> m.triangles]

\* export_obj_glb(mesh, uv, texture_path, out_dir), which may raise before
\* model.obj is written (opening the texture, building or encoding the mesh),
\* after it (re-saving the texture, encoding the GLB) or while writing model.glb
ExportObjGlb ==
    /\ pc = "textured"
    /\ \E outcome \in {"ok", "encode_obj_raises", "encode_glb_raises",
                       "write_glb_raises"} :
          LET enc == EncodeMesh(mesh, uv) IN
          /\ outdir' =
                IF outcome = "encode_obj_raises" THEN outdir
                ELSE IF outcome = "encode_glb_raises"
                     THEN [outdir EXCEPT !.obj = enc]
                     ELSE IF outcome = "write_glb_raises"
                          THEN [outdir EXCEPT !.obj = enc,
                                              !.glb = [Absent EXCEPT !.present = TRUE]]
                          ELSE [outdir EXCEPT !.obj = enc, !.glb = enc]
          /\ IF outcome = "ok"
             THEN pc' = "exported" /\ UNCHANGED failure
             ELSE Raise("export_obj_glb", "Exception")
    /\ UNCHANGED <<image, model, depth, pcd, mesh, recon, uv, loadVars, bpVars, srvVars>>

\* the counts taken with the two swapped, a slip in the dictionary
StatsOfSwapped(m) ==
    [present |-> TRUE, vertices |-> m.triangles, faces |-> Len(m.vertices)]

\* the stats dictionary of write_stats (the bounding box is left out)
StatsOf(m) ==
    [present |-> TRUE, vertices |-> Len(m.vertices), faces |-> m.triangles]

\* stats = write_stats(mesh, out_dir), then the closing prints
WriteStats ==
    /\ pc = "exported"
    /\ \E raises \in BOOLEAN :
          IF raises
          THEN /\ Raise("write_stats", "OSError")
               /\ UNCHANGED outdir
          ELSE /\ outdir' = [outdir EXCEPT !.stats = StatsOf(mesh)]
               /\ pc' = "done"
               /\ UNCHANGED failure
    /\ UNCHANGED <<image, model, depth, pcd, mesh, recon, uv, loadVars, bpVars, srvVars>>

Init == pc = "start" /\ PipeFresh /\ LoadIdle /\ BpIdle /\ SrvIdle

Next ==
    \/ ReadImage
    \/ LoadMidas
    \/ EstimateDepth
    \/ BackProjectDepth
    \/ CleanPointcloud
    \/ ReconstructMesh
    \/ ComputeUV
    \/ SaveTexture
    \/ ExportObjGlb
    \/ WriteStats

Spec == Init /\ [][Next]_vars

(***************************************************************************)
(* server.py: generate_3d and generate_3d_sync, one handler per request,   *)
(* the handlers running concurrently                                       *)
(***************************************************************************)
Endpoints == {"/generate", "/generate-sync"}

\* the upload checks: a missing file, an empty or a disallowed name give 400
Validate(r) ==
    /\ srv[r].pc = "new"
    /\ \E ep \in Endpoints, valid \in BOOLEAN :
          srv' = [srv EXCEPT ![r] =
                    IF valid
                    THEN [@ EXCEPT !.pc = "accepted", !.endpoint = ep]
                    ELSE [@ EXCEPT !.pc = "done", !.endpoint = ep,
                                   !.response = [code |-> "400", files |-> {}]]]
    /\ UNCHANGED <<fs, loadVars, bpVars, pipeVars>>

\* a directory name taken whether or not a directory of that name exists
AnyDirs(f) == Dirs

\* the names mkdtemp can return: those of no existing directory
FreshDirs(f) == {d \in Dirs : ~f[d].exists}

\* with tempfile.TemporaryDirectory() as tmpdir
MakeTempDir(r) ==
    /\ srv[r].pc = "accepted"
    /\ \E d \in FreshDirs(fs) :
          /\ fs' = [fs EXCEPT ![d] = [EmptyDir EXCEPT !.exists = TRUE]]
          /\ srv' = [srv EXCEPT ![r].pc = "tmp", ![r].tmpdir = d]
    /\ UNCHANGED <<loadVars, bpVars, pipeVars>>

\* input_path = tmpdir / secure_filename(...); output_dir = tmpdir / "out";
\* output_dir.mkdir(exist_ok=True); file.save(input_path). Both raise when the
\* temporary directory is gone, which ends the request with a 500
SaveUpload(r) ==
    /\ srv[r].pc = "tmp"
    /\ LET d == srv[r].tmpdir IN
       IF fs[d].exists
       THEN /\ fs' = [fs EXCEPT ![d].out = TRUE, ![d].input = r]
            /\ srv' = [srv EXCEPT ![r].pc = "saved"]
       ELSE /\ srv' = [srv EXCEPT ![r].pc = "cleanup",
                                  ![r].response = [code |-> "500", files |-> {}]]
            /\ UNCHANGED fs
    /\ UNCHANGED <<loadVars, bpVars, pipeVars>>

\* subprocess.run([python, predict.py, --input, input_path, --output, output_dir]):
\* the child's cv2.imread(input_path); it exits with an error on a missing file
PredictRead(r) ==
    /\ srv[r].pc = "saved"
    /\ LET d == srv[r].tmpdir
           got == IF fs[d].exists THEN fs[d].input ELSE 0
       IN srv' = [srv EXCEPT ![r] =
                     IF got = 0
                     THEN [@ EXCEPT !.pc = "exited", !.exit = "failed"]
                     ELSE [@ EXCEPT !.pc = "running", !.src = got]]
    /\ UNCHANGED <<fs, loadVars, bpVars, pipeVars>>

\* the files of directory dir after the child wrote the first k files of its run
Written(dir, k, src) ==
    [dir EXCEPT !.files =
        [n \in OutFiles |->
            IF \E i \in 1..k : OutOrder[i] = n THEN src ELSE dir.files[n]]]

\* the rest of the child's run_single_image: it writes its files into output_dir
\* in order and exits 0, or stops after any of them with an error, or is killed
\* when the 120 s timeout expires
PredictWrite(r) ==
    /\ srv[r].pc = "running"
    /\ \E k \in 0..Len(OutOrder), exit \in {"ok", "failed", "timeout"} :
          LET d == srv[r].tmpdir
              can == fs[d].exists /\ fs[d].out
          IN /\ exit = "ok" => (k = Len(OutOrder) /\ can)
             /\ exit = "failed" => k < Len(OutOrder)
             /\ ~can => k = 0
             /\ fs' = [fs EXCEPT ![d] = Written(@, k, srv[r].src)]
             /\ srv' = [srv EXCEPT ![r].pc = "exited", ![r].exit = exit]
    /\ UNCHANGED <<loadVars, bpVars, pipeVars>>

\* the files of output_dir that exist, as the handler reads them
Generated(dir, names) ==
    IF dir.exists /\ dir.out
    THEN {<<n, dir.files[n]>> : n \in {m \in names : dir.files[m] # 0}}
    ELSE {}

\* /generate: 500 on a timeout or a non-zero return code, else the files found
generate_3d(exit, dir) ==
    IF exit = "ok"
    THEN [code |-> "200", files |-> Generated(dir, OutFiles)]
    ELSE [code |-> "500", files |-> {}]

\* /generate-sync: 500 on a timeout, on a non-zero return code and on a missing
\* model.glb, else model.glb
generate_3d_sync(exit, dir) ==
    IF exit = "ok" /\ Generated(dir, {"model.glb"}) # {}
    THEN [code |-> "200", files |-> Generated(dir, {"model.glb"})]
    ELSE [code |-> "500", files |-> {}]

\* the handler after subprocess.run: it builds its response
Respond(r) ==
    /\ srv[r].pc = "exited"
    /\ LET dir == fs[srv[r].tmpdir] IN
       srv' = [srv EXCEPT ![r].pc = "cleanup",
                          ![r].response =
                              IF srv[r].endpoint = "/generate"
                              THEN generate_3d(srv[r].exit, dir)
                              ELSE generate_3d_sync(srv[r].exit, dir)]
    /\ UNCHANGED <<fs, loadVars, bpVars, pipeVars>>

\* leaving the with block removes the temporary directory and all in it
Cleanup(r) ==
    /\ srv[r].pc = "cleanup"
    /\ fs' = [fs EXCEPT ![srv[r].tmpdir] = EmptyDir]
    /\ srv' = [srv EXCEPT ![r].pc = "done"]
    /\ UNCHANGED <<loadVars, bpVars, pipeVars>>

InitServer == SrvFresh /\ LoadIdle /\ BpIdle /\ PipeIdle

NextServer ==
    \E r \in Reqs :
        \/ Validate(r)
        \/ MakeTempDir(r)
        \/ SaveUpload(r)
        \/ PredictRead(r)
        \/ PredictWrite(r)
        \/ Respond(r)
        \/ Cleanup(r)

SpecServer == InitServer /\ [][NextServer]_vars

(***************************************************************************)
(* Claims about load_midas (SpecLoad)                                      *)
(***************************************************************************)
\* the priority order the specification states
C1_Priority == <<"DPT_Large", "DPT_Hybrid", "MiDaS_small">>

C1_Loads(h, i) == Succeeds(h.variants[C1_Priority[i]])

\* the fallback contract for one call: the first loadable variant of the priority
\* order is returned, nothing after it is attempted, and the call raises exactly
\* when no variant loads
C1_Contract(res, h) ==
    /\ (res.status = "raised") <=> (\A i \in 1..3 : ~C1_Loads(h, i))
    /\ res.status = "raised" => res.tried = C1_Priority
    /\ res.status = "returned" =>
          \E i \in 1..3 :
              /\ C1_Loads(h, i)
              /\ \A j \in 1..(i - 1) : ~C1_Loads(h, j)
              /\ res.model = C1_Priority[i]
              /\ res.tried = SubSeq(C1_Priority, 1, i)

C3_Aggregated ==
    (loadRes.status = "raised" /\ loadRes.tried # <<>>) =>
        \A i \in 1..Len(loadRes.tried) :
            HubError(loadRes.tried[i], hub.variants[loadRes.tried[i]])
                \in loadRes.carries

(***************************************************************************)
(* Claims about run_single_image (Spec)                                    *)
(***************************************************************************)
\* the run has passed the call of the stage, or failed in a later one
C_Past(stages, later) ==
    \/ pc \in stages
    \/ pc = "failed" /\ failure.stage \in later

\* C2: when inference fails on the variant that loaded, the next variant is
\* tried, so a run fails in inference only after every variant of the priority
\* list has been tried.
C2_InferenceFallback ==
    (pc = "failed" /\ failure.stage = "estimate_depth") =>
        model.tried = <<"DPT_Large", "DPT_Hybrid", "MiDaS_small">>

\* back-projection returned no point
C4_ZeroPoints ==
    /\ pcd = <<>>
    /\ C_Past({"points", "cleaned", "meshed", "uv", "textured", "exported", "done"},
              {"reconstruct_mesh", "save_texture", "export_obj_glb",
               "write_stats"})

\* reconstruction returned a mesh without triangles
C4_ZeroTriangles ==
    /\ mesh.triangles = 0
    /\ C_Past({"meshed", "uv", "textured", "exported", "done"},
              {"save_texture", "export_obj_glb", "write_stats"})

\* C4: a run whose back-projection yields no valid point or whose reconstruction
\* yields no triangle ends in a DegenerateGeometry failure, never completes the
\* export and writes no model.obj, model.glb or stats.json.
C4_DegenerateSurfaced ==
    (C4_ZeroPoints \/ C4_ZeroTriangles) =>
        /\ pc \notin {"exported", "done"}
        /\ pc = "failed" => failure.exc = "DegenerateGeometry"
        /\ ~outdir.obj.present
        /\ ~outdir.glb.present
        /\ ~outdir.stats.present

\* C5: a run that aborts with a failure leaves no artifact of the run in the
\* output directory: no texture.png, model.obj, model.glb or stats.json.
C5_NoPartialOutput ==
    pc = "failed" =>
        /\ ~outdir.obj.present
        /\ ~outdir.glb.present
        /\ ~outdir.stats.present
        /\ ~outdir.texture

\* C6: in a completed run the vertices and faces of stats.json are the vertex
\* and face counts written to model.obj, which are those of the final mesh.
C6_StatsMatchObj ==
    pc = "done" =>
        /\ outdir.obj.present /\ outdir.stats.present
        /\ outdir.stats.vertices = outdir.obj.v
        /\ outdir.stats.faces = outdir.obj.f
        /\ outdir.obj.v = Len(mesh.vertices)
        /\ outdir.obj.f = mesh.triangles

\* a completed run whose mesh was decimated to the budget
C6_Witness ==
    /\ pc = "done"
    /\ recon.n_repaired > 150000
    /\ outdir.stats.faces = 150000
    /\ outdir.stats.vertices >= 2

\* C7: compute_uv runs only once reconstruct_mesh has returned the final mesh,
\* the UV array has one entry per mesh vertex in vertex order, and it stays so
\* up to and after the export, whose OBJ has as many vt as v lines.
C7_UVParallel ==
    /\ pc \in {"start", "decoded", "loaded", "depth", "points", "cleaned", "meshed"}
          => uv = <<>>
    /\ C_Past({"uv", "textured", "exported", "done"},
              {"save_texture", "export_obj_glb", "write_stats"}) =>
          /\ Len(uv) = Len(mesh.vertices)
          /\ \A i \in 1..Len(uv) : uv[i].vertex = mesh.vertices[i]
          /\ outdir.obj.present =>
                outdir.obj.vt = outdir.obj.v /\ outdir.obj.v = Len(mesh.vertices)

\* an exported mesh whose decimation removed the first vertex of the repaired
\* mesh: the UV array follows the decimated vertex array
C7_Witness ==
    /\ pc = "exported"
    /\ recon.n_repaired > 150000
    /\ Len(mesh.vertices) >= 2
    /\ mesh.vertices[1] = 2
    /\ uv[1].vertex = 2

\* C8 as stated: simplification is invoked only when the repaired mesh has more
\* than 150,000 triangles, with target 150,000, and is skipped at or below it.
C8_AsStated ==
    C_Past({"meshed", "uv", "textured", "exported", "done"},
           {"save_texture", "export_obj_glb", "write_stats"}) =>
        IF recon.n_repaired > 150000
        THEN recon.simplify_calls = <<150000>>
        ELSE recon.simplify_calls = <<>>

\* C8 amended: simplification is skipped only for a mesh without triangles; a
\* mesh of n > 0 triangles is simplified once, with target min(n, 150,000), which
\* for n at or below 150,000 is n itself and leaves the triangle count at n.
C8_DecimationPolicy ==
    C_Past({"meshed", "uv", "textured", "exported", "done"},
           {"save_texture", "export_obj_glb", "write_stats"}) =>
        /\ recon.n_repaired = 0 => recon.simplify_calls = <<>>
        /\ recon.n_repaired > 0 =>
              recon.simplify_calls =
                  <<IF recon.n_repaired < 150000 THEN recon.n_repaired ELSE 150000>>
        /\ recon.n_repaired <= 150000 => mesh.triangles = recon.n_repaired
        /\ mesh.triangles <= 150000

\* a mesh under the budget for which simplification was invoked all the same
C8_Witness ==
    /\ pc = "meshed"
    /\ recon.n_repaired = 2
    /\ recon.simplify_calls = <<2>>
    /\ mesh.triangles = 2

(***************************************************************************)
(* Claims about depth_to_pointcloud (SpecBackproj)                         *)
(***************************************************************************)
\* the flattened pixels of the argument whose scaled depth exceeds 0.001
C9_ValidPixels ==
    {k \in 1..(bpIn[1].H * bpIn[1].W) : bpIn[1].depth[k] * 3 > 3}

\* the point the specification's formulas give for flattened pixel k
C9_PointOf(k) ==
    LET W == bpIn[1].W
        H == bpIn[1].H
        z == bpIn[1].depth[k] * 3
    IN [x |-> (2 * ((k - 1) % W) - W) * z, y |-> (2 * ((k - 1) \div W) - H) * z,
        z |-> z]

\* C9: depth_to_pointcloud returns one point per pixel whose z = depth * 3.0 is
\* strictly above 0.001 and none for a pixel at or below it: the point count is
\* the number of valid pixels, every valid pixel has its point, every point
\* comes from a valid pixel, and an all-zero depth map gives the empty cloud.
C9_KeepsValidPixels ==
    bpOut # <<>> =>
        LET pts == bpOut[1] IN
        /\ Len(pts) = Cardinality(C9_ValidPixels)
        /\ \A k \in C9_ValidPixels : \E i \in 1..Len(pts) : pts[i] = C9_PointOf(k)
        /\ \A i \in 1..Len(pts) : pts[i].z > 3
        /\ (\A k \in DOMAIN bpIn[1].depth : bpIn[1].depth[k] = 0) => pts = <<>>

\* a 2-pixel-wide map with a pixel exactly at the threshold (dropped), a pixel
\* of depth 0 (dropped) and a pixel above the threshold (kept)
C9_Witness ==
    /\ bpOut # <<>>
    /\ \E k \in DOMAIN bpIn[1].depth : bpIn[1].depth[k] = 1
    /\ \E k \in DOMAIN bpIn[1].depth : bpIn[1].depth[k] = 0
    /\ Len(bpOut[1]) = 1

(***************************************************************************)
(* Claims about the server (SpecServer)                                    *)
(***************************************************************************)
\* the request is inside its with block: it holds a temporary directory
C10_Holds(r) == srv[r].pc \in {"tmp", "saved", "running", "exited", "cleanup"}

\* C10: whatever the interleaving of the requests, the requests inside their
\* with block hold different temporary directories, every file of a request's
\* directory comes from that request's own upload, the request's pipeline read
\* its own upload, and the files a request returns are those of its own run.
C10_Isolation ==
    \A r \in Reqs :
        /\ \A q \in Reqs \ {r} :
              C10_Holds(r) /\ C10_Holds(q) => srv[r].tmpdir # srv[q].tmpdir
        /\ C10_Holds(r) =>
              /\ fs[srv[r].tmpdir].exists
              /\ fs[srv[r].tmpdir].input \in {0, r}
              /\ \A n \in OutFiles : fs[srv[r].tmpdir].files[n] \in {0, r}
        /\ srv[r].src \in {0, r}
        /\ \A f \in srv[r].response.files : f[2] = r
        /\ (srv[r].response.code = "200" /\ srv[r].endpoint = "/generate")
              => srv[r].response.files = {<<n, r>> : n \in OutFiles}
        /\ (srv[r].response.code = "200" /\ srv[r].endpoint = "/generate-sync")
              => srv[r].response.files = {<<"model.glb", r>>}

\* two requests inside their with blocks at once, one on each endpoint, both
\* with a complete run, the first already holding its response
C10_Witness ==
    /\ srv[1].pc = "cleanup" /\ srv[1].response.code = "200"
    /\ srv[1].endpoint = "/generate"
    /\ srv[2].pc = "exited" /\ srv[2].exit = "ok"
    /\ srv[2].endpoint = "/generate-sync"

(***************************************************************************)
(* Claim about the input check of run_single_image (Spec)                  *)
(***************************************************************************)
\* C11: when the input image cannot be read or decoded, the run aborts at once
\* with an error that names the input path: the depth model is neither loaded
\* nor invoked, no later stage runs, and no output directory or file is created.
C11_FailFast ==
    (image = [H |-> 0, W |-> 0] /\ pc # "start") =>
        /\ pc = "failed"
        /\ failure.stage = "imread"
        /\ failure.exc = "FileNotFoundError"
        /\ failure.names = "input_path"
        /\ model.name = "None" /\ model.tried = <<>>
        /\ depth = <<>> /\ pcd = <<>> /\ uv = <<>>
        /\ mesh.vertices = <<>> /\ recon.simplify_calls = <<>>
        /\ ~outdir.exists
        /\ ~outdir.texture /\ ~outdir.obj.present /\ ~outdir.glb.present
        /\ ~outdir.stats.present

\* a run whose image could not be read and that has ended
C11_Witness ==
    /\ pc = "failed"
    /\ failure.stage = "imread"
    /\ image = [H |-> 0, W |-> 0]

====
